---- MODULE Spec2Model ----
(***************************************************************************)
(* A model of firebase-test-lab/trigger_ftl_tests.py: the main thread      *)
(* (parse_cmdline_args, _run_test_on_ftl, _exit_code, print) and the       *)
(* threads it starts (_ftl_run with its retry loop, _parse_test_summary,   *)
(* _validate_results), together with the command builders.                 *)
(*                                                                         *)
(* Strings.  A path is the string stem \o ext; str.endswith(ext) is read   *)
(* off the ext field of the file record the path was made from.  A command *)
(* line (" ".join(ftl_cmd), line 179) is kept as the sequence of its       *)
(* tokens.  None is the string "None" for the flags whose values are       *)
(* strings and the empty sequence for the flags that are split into lists  *)
(* (None and "" are both falsy in the code's tests).                       *)
(***************************************************************************)
EXTENDS Integers, Sequences, FiniteSets, TLC

VARIABLES
  FLAGS,          \* the argparse namespace (line 390), read-only afterwards
  fs,             \* the files os.walk finds under FLAGS.testapp_dir (line 129)
  main_pc,        \* where the main thread is
  ftl_cmd_list,   \* line 154
  tests_result,   \* line 176: [project_id, apps]
  n_started,      \* how many threads the loop of line 178 has started
  n_joined,       \* how many threads the loop of line 182 has joined
  thread_pc,      \* per thread: where _ftl_run is
  attempt_num,    \* per thread: line 190
  test_summary,   \* per thread: line 204
  popen_calls,    \* per thread: how many times line 193 ran
  verdicts,       \* per thread: what _validate_results returned, per call
  hook_calls,     \* per thread: the (attempt, answer) of each validator.validate call
  build_calls,    \* how many times a command builder was called
  exit_code,      \* line 113
  stdout,         \* what print wrote (line 114)
  result_log,     \* line 215: what the gcloud process wrote, line by line
  parsed          \* what _parse_test_summary returned for result_log, per call

vars == << FLAGS, fs, main_pc, ftl_cmd_list, tests_result, n_started, n_joined,
           thread_pc, attempt_num, test_summary, popen_calls, verdicts,
           hook_calls, build_calls, exit_code, stdout, result_log, parsed >>

thread_vars == << thread_pc, attempt_num, test_summary, popen_calls, verdicts, hook_calls >>

-----------------------------------------------------------------------------
(* Bounds of the model *)

MaxFiles == 2
MaxArgGroups == 2
MaxThreads == 2
MaxAttempts == 2
MaxInvocations == 4
MaxDevices == 3
MaxLines == 4
MaxMembers == 3

-----------------------------------------------------------------------------
(* Constants of the program *)

None == "None"

XCTEST == "xctest"
ROBO == "robo"
INSTRUMENTATION == "instrumentation"
GAMELOOP == "game-loop"

GCLOUD == "gcloud"
TEST_ANDROID_CMD == << GCLOUD, "firebase", "test", "android", "run" >>
TEST_IOS_CMD == << GCLOUD, "firebase", "test", "ios", "run" >>
BETA_TEST_IOS_CMD == << GCLOUD, "beta", "firebase", "test", "ios", "run" >>

-----------------------------------------------------------------------------
(* The environment: what the program is given *)

\* --test_type is a free string (line 375): the four known types, one
\* string that is none of them, and the default None.
TestTypeValues == { None, XCTEST, ROBO, INSTRUMENTATION, GAMELOOP, "bogus" }

\* Exit codes of the gcloud process: 0, and 10 ("test failures", the page
\* line 201 cites).
ReturnCodes == { 0, 10 }

\* --validator (line 388): None, or the path of a script.  What
\* imp.load_source does with the path is LoadSource below.
ValidatorValues == { None, "validator.py", "imports_missing_module.py", "no_such_file.py" }

\* imp.load_source (line 277): the module, or the exception it raises.  A
\* script that is not there raises FileNotFoundError (an OSError), one whose
\* own imports fail raises ImportError.
LoadSource(path) ==
  CASE path = "validator.py" -> "module"
    [] path = "imports_missing_module.py" -> "ImportError"
    [] OTHER -> "FileNotFoundError"

\* The members of an archive, for zipObj.extractall and os.walk (lines 342-344):
\* name, whether the name ends with ".apk", whether its lower case holds "test".
ZipApp == [ name |-> "app-debug.apk", apk |-> TRUE, test |-> FALSE ]
ZipTest == [ name |-> "app-debug-test.apk", apk |-> TRUE, test |-> TRUE ]
ZipOther == [ name |-> "README.txt", apk |-> FALSE, test |-> FALSE ]
ZipApp2 == [ name |-> "app-release.apk", apk |-> TRUE, test |-> FALSE ]
ZipTest2 == [ name |-> "app-androidTest.apk", apk |-> TRUE, test |-> TRUE ]

\* The archives the runs are given: one with both packages, one without the
\* test package.
ZipContents == { << ZipApp, ZipTest >>, << ZipApp >> }

\* Every archive of at most MaxMembers members, each under its own name.
ZipMembers == { ZipApp, ZipTest, ZipOther, ZipApp2, ZipTest2 }
ZipListings ==
  { m \in UNION { [ 1..n -> ZipMembers ] : n \in 0..MaxMembers } :
      \A i, j \in 1..Len(m) : m[i] = m[j] => i = j }

\* The files a directory can hold at position i.
FileAt(i) ==
  { [ stem |-> "dir/t" \o ToString(i), ext |-> e, members |-> << >> ] : e \in { ".apk", ".ipa" } }
  \cup
  { [ stem |-> "dir/t" \o ToString(i), ext |-> ".zip", members |-> m ] : m \in ZipContents }

RECURSIVE Listings(_)
Listings(n) ==
  IF n = 0 THEN { << >> }
  ELSE { Append(l, f) : l \in Listings(n - 1), f \in FileAt(n) }

Dirs == UNION { Listings(n) : n \in 0..MaxFiles }

ArgGroup(i) == "args.yaml:g" \o ToString(i)
ArgGroupLists == { [ i \in 1..n |-> ArgGroup(i) ] : n \in 0..MaxArgGroups }

Device(i) == "model=m" \o ToString(i) \o ",version=" \o ToString(i)
DeviceLists == { [ i \in 1..n |-> Device(i) ] : n \in 0..MaxDevices }

full_path(f) == f.stem \o f.ext
endswith(f, e) == f.ext = e

Max(a, b) == IF a >= b THEN a ELSE b

-----------------------------------------------------------------------------
(* _search_testapps, lines 126-144 *)

Eligible(f, test_type) ==
  \/ /\ test_type \in { XCTEST, INSTRUMENTATION }
     /\ endswith(f, ".zip")
  \/ /\ test_type = ROBO
     /\ endswith(f, ".apk")
  \/ /\ test_type = GAMELOOP
     /\ (endswith(f, ".apk") \/ endswith(f, ".ipa"))

_search_testapps(files, test_type) ==
  SelectSeq(files, LAMBDA f : Eligible(f, test_type))

-----------------------------------------------------------------------------
(* _extract_instrumentation_test, lines 336-351 *)

Unbound == "<unbound>"

\* The value of a local after the loop of lines 343-350: the path of the last
\* member that assigns it, or Unbound when no member does.
RECURSIVE LastAssigned(_, _, _)
LastAssigned(zip, members, want_test) ==
  IF members = << >> THEN Unbound
  ELSE LET m == members[Len(members)] IN
       IF m.apk /\ (m.test = want_test)
       THEN zip.stem \o "/" \o m.name
       ELSE LastAssigned(zip, SubSeq(members, 1, Len(members) - 1), want_test)

_extract_instrumentation_test(zip) ==
  [ app_path |-> LastAssigned(zip, zip.members, FALSE),
    test_path |-> LastAssigned(zip, zip.members, TRUE) ]

\* Line 351 reads both locals: reading an unbound one raises UnboundLocalError.
ExtractRaises(zip) ==
  LET r == _extract_instrumentation_test(zip) IN
  r.app_path = Unbound \/ r.test_path = Unbound

-----------------------------------------------------------------------------
(* _ftl_cmd_with_flags, lines 299-333 *)

KnownType(test_type) == test_type \in { XCTEST, ROBO, INSTRUMENTATION, GAMELOOP }

BaseCmd(F, app) ==
  IF F.test_type = XCTEST THEN TEST_IOS_CMD
  ELSE IF F.test_type = ROBO \/ F.test_type = INSTRUMENTATION THEN TEST_ANDROID_CMD
  ELSE IF endswith(app, ".ipa") THEN BETA_TEST_IOS_CMD
  ELSE TEST_ANDROID_CMD

\* A builder that passes every artifact as --app.
ArtifactFlags_app_only(F, app) ==
  << "--app", full_path(app) >>

\* Lines 313-319.
ArtifactFlags(F, app) ==
  IF F.test_type = XCTEST THEN << "--test", full_path(app) >>
  ELSE IF F.test_type = ROBO \/ F.test_type = GAMELOOP THEN << "--app", full_path(app) >>
  ELSE LET r == _extract_instrumentation_test(app) IN
       << "--app", r.app_path, "--test", r.test_path >>

RECURSIVE AllDeviceFlags(_)
AllDeviceFlags(devices) ==
  IF devices = << >> THEN << >>
  ELSE << "--device", Head(devices) >> \o AllDeviceFlags(Tail(devices))

\* A builder that forgets the selection policy.
DeviceFlags_all(F, choice) ==
  AllDeviceFlags(F.test_devices)

\* Lines 322-328.  choice is the index random.choice picks.
DeviceFlags(F, choice) ==
  IF F.test_devices = << >> THEN << >>
  ELSE IF F.test_device_selection = "random"
       THEN << "--device", F.test_devices[choice] >>
       ELSE AllDeviceFlags(F.test_devices)

\* The exception the call raises, or None.
FlagsCmdRaises(F, app) ==
  IF ~KnownType(F.test_type) THEN "ValueError"
  ELSE IF F.test_type = INSTRUMENTATION /\ ExtractRaises(app) THEN "UnboundLocalError"
  ELSE None

_ftl_cmd_with_flags(F, app, choice) ==
  BaseCmd(F, app)
    \o ArtifactFlags(F, app)
    \o << "--type", F.test_type, "--timeout", F.timeout >>
    \o DeviceFlags(F, choice)
    \o F.additional_flags

-----------------------------------------------------------------------------
(* _ftl_cmd_with_arg_group, lines 285-296: test_flags is built and dropped *)

_ftl_cmd_with_arg_group(F, arg_group) ==
  Append(TEST_ANDROID_CMD, arg_group)

-----------------------------------------------------------------------------
(* The captured text (line 215).  A text is the sequence of its tokens: the
   literals the regular expressions of lines 221-253 look for, and words that
   hold none of them.  result_log keeps the text line by line; the text
   itself is the lines joined by "\n". *)

\* The vertical bar of the box drawings (U+2502).
BAR == "|"
NL == "\n"

UPLOADING == "Uploading "
TO_FTL == " to Firebase Test Lab"
STREAMED_TO == "Test results will be streamed to "
STORED_AT == "Raw results will be stored in your GCS bucket at "

\* The lines gcloud writes, whole or cut short.
UploadingLine == << UPLOADING, "[", "dir/t1.apk", "]", TO_FTL >>
UploadingLineCut == << UPLOADING, "[", "dir/t1.apk" >>
StreamedLine == << STREAMED_TO, "[", "https://console/matrix-1", "]" >>
StoredLine == << STORED_AT, "[", "https://storage/bucket-1", "]" >>
HeaderRow == << BAR, " ", "OUTCOME", " ", BAR, " ", "TEST_AXIS_VALUE", " ", BAR, " ", "TEST_DETAILS", " ", BAR >>
DeviceRow == << BAR, " ", "Failed", " ", BAR, " ", "iphone13pro-15.2-en-portrait", " ", BAR, " ", "1 test cases failed", " ", BAR >>
DeviceRowCut == << BAR, " ", "Inconclusive", " ", BAR, " ", "iphone8-14.7-en-portrait", " ", BAR >>
OutcomeLine == << "OUTCOME", ":", " ", "Passed" >>
AxisLine == << "TEST_AXIS_VALUE", ":", " ", "redfin-30-en-portrait" >>
DetailsLine == << "TEST_DETAILS", ":", " ", "--" >>

LineValues ==
  { UploadingLine, UploadingLineCut, StreamedLine, StoredLine, HeaderRow,
    DeviceRow, DeviceRowCut, OutcomeLine, AxisLine, DetailsLine }

\* The captures: every text of at most MaxLines of these lines.
Captures == UNION { [ 1..n -> LineValues ] : n \in 0..MaxLines }

\* "\n".join(lines)
RECURSIVE Text(_)
Text(lines) ==
  IF lines = << >> THEN << >>
  ELSE IF Len(lines) = 1 THEN lines[1]
  ELSE lines[1] \o << NL >> \o Text(Tail(lines))

-----------------------------------------------------------------------------
(* The regular expressions of lines 221-253, under re.DOTALL: "." matches
   every character, the line end included, and "(.*?)" takes the shortest
   text that lets the rest of the pattern match. *)

\* The literal pat is in text at position i.
LiteralAt(text, pat, i) ==
  /\ i >= 1
  /\ i + Len(pat) - 1 <= Len(text)
  /\ \A k \in 1..Len(pat) : text[i + k - 1] = pat[k]

\* The first position at or after from where the literal is, or 0.
FirstAt(text, pat, from) ==
  LET hits == { i \in from..Len(text) : LiteralAt(text, pat, i) } IN
  IF hits = { } THEN 0 ELSE CHOOSE i \in hits : \A j \in hits : i <= j

\* re.search(prefix(.*?)suffix): the match starts at the first prefix that
\* has the suffix somewhere after it, and its group ends at the first
\* suffix after that prefix.  When the first prefix has no suffix after it,
\* no later one has.
re_search(text, prefix, suffix) ==
  LET p == FirstAt(text, prefix, 1)
      q == IF p = 0 THEN 0 ELSE FirstAt(text, suffix, p + Len(prefix))
  IN IF q = 0 THEN [ match |-> FALSE, group |-> << >> ]
     ELSE [ match |-> TRUE, group |-> SubSeq(text, p + Len(prefix), q - 1) ]

\* A parser whose fields start as the text None.
Group1_none(search) ==
  IF search.match THEN search.group ELSE << "None" >>

\* Lines 220-233: the field starts as "" and becomes group(1) on a match.
Group1(search) ==
  IF search.match THEN search.group ELSE << >>

\* str.strip(): the text without its leading and trailing white space.
strip(s) ==
  LET black == { i \in 1..Len(s) : s[i] \notin { " ", NL } } IN
  IF black = { } THEN << >>
  ELSE SubSeq(s, CHOOSE i \in black : \A j \in black : i <= j,
                 CHOOSE i \in black : \A j \in black : i >= j)

\* The positions of the bars of the text, in order.
BarsOf(text) ==
  SelectSeq([ i \in 1..Len(text) |-> i ], LAMBDA i : text[i] = BAR)

\* re.findall(BAR(.*?)BAR(.*?)BAR(.*?)BAR), line 242: each match runs from a bar
\* to the third bar after it, whatever lies between, and the search goes on
\* after the match; so the bars of the text are taken four by four.
findall_rows(text) ==
  LET bars == BarsOf(text) IN
  [ k \in 1..(Len(bars) \div 4) |->
      [ j \in 1..3 |-> SubSeq(text, bars[4 * k - 4 + j] + 1, bars[4 * k - 3 + j] - 1) ] ]

OUTCOME_KEY == << "OUTCOME", ":" >>
AXIS_KEY == << NL, "TEST_AXIS_VALUE", ":" >>
DETAILS_KEY == << NL, "TEST_DETAILS", ":" >>

\* re.findall(OUTCOME:(.*?)\nTEST_AXIS_VALUE:(.*?)\nTEST_DETAILS:), line 251,
\* from position from on: a match starts at the first OUTCOME: that has the
\* other two keys after it, in this order; its groups end at the first such
\* keys.
RECURSIVE findall_triples(_, _)
findall_triples(text, from) ==
  LET o == FirstAt(text, OUTCOME_KEY, from)
      a == IF o = 0 THEN 0 ELSE FirstAt(text, AXIS_KEY, o + Len(OUTCOME_KEY))
      d == IF a = 0 THEN 0 ELSE FirstAt(text, DETAILS_KEY, a + Len(AXIS_KEY))
  IN IF d = 0 THEN << >>
     ELSE << << SubSeq(text, o + Len(OUTCOME_KEY), a - 1),
                SubSeq(text, a + Len(AXIS_KEY), d - 1) >> >>
          \o findall_triples(text, d + Len(DETAILS_KEY))

\* 'OUTCOME' in o_d[0], line 244.
HoldsOutcome(cell) == \E i \in 1..Len(cell) : cell[i] = "OUTCOME"

\* Lines 245 and 253.
DeviceOutcome(o_d) == [ device_axis |-> strip(o_d[2]), outcome |-> strip(o_d[1]) ]

RECURSIVE MapDeviceOutcome(_)
MapDeviceOutcome(matches) ==
  IF matches = << >> THEN << >>
  ELSE << DeviceOutcome(Head(matches)) >> \o MapDeviceOutcome(Tail(matches))

\* Lines 235-253.
outcome_device(text) ==
  MapDeviceOutcome(SelectSeq(findall_rows(text), LAMBDA o_d : ~HoldsOutcome(o_d[1])))
    \o MapDeviceOutcome(findall_triples(text, 1))

-----------------------------------------------------------------------------
(* _parse_test_summary, lines 213-264.  text is result.stdout.read(). *)

_parse_test_summary(F, ftl_cmd, returncode, text, attempt) ==
  [ attempt |-> attempt,
    cmd |-> ftl_cmd,
    return_code |-> returncode,
    testapp_path |-> Group1(re_search(text, << UPLOADING, "[" >>, << "]", TO_FTL >>)),
    test_type |-> F.test_type,
    ftl_link |-> Group1(re_search(text, << STREAMED_TO, "[" >>, << "]" >>)),
    raw_result_link |-> Group1(re_search(text, << STORED_AT, "[" >>, << "]" >>)),
    devices |-> outcome_device(text) ]

-----------------------------------------------------------------------------
(* _validate_results, lines 267-282 *)

\* Line 269.
ReturnCodeFails(summary) == summary.return_code # 0

\* A test that forgets the test type.
UsesValidator_any_type(F) == F.validator # None

\* Line 272.
UsesValidator(F) == F.test_type = GAMELOOP /\ F.validator # None

\* Line 279: the exceptions the except clause catches.
Caught(exception) == exception = "ImportError"

\* A validation that calls the hook and does not use what it answers.
_validate_results_hook_ignored(F, summary, answer) ==
  IF ReturnCodeFails(summary) THEN [ how |-> "return", value |-> FALSE, hook |-> FALSE ]
  ELSE [ how |-> "return", value |-> TRUE,
         hook |-> UsesValidator(F) /\ LoadSource(F.validator) = "module" ]

\* What the call does, given what imp.load_source does with the script and
\* what validate answers: "return" with a value, or "raise".
_validate_results(F, summary, answer) ==
  IF ReturnCodeFails(summary) THEN [ how |-> "return", value |-> FALSE, hook |-> FALSE ]
  ELSE IF UsesValidator(F)
       THEN LET loaded == LoadSource(F.validator) IN
            IF loaded = "module" THEN [ how |-> "return", value |-> answer, hook |-> TRUE ]
            ELSE IF Caught(loaded) THEN [ how |-> "return", value |-> TRUE, hook |-> FALSE ]
            ELSE [ how |-> "raise", value |-> FALSE, hook |-> FALSE ]
       ELSE [ how |-> "return", value |-> TRUE, hook |-> FALSE ]

-----------------------------------------------------------------------------
(* _exit_code, lines 354-364 *)

\* An exit code that looks at the latest record of each command only.
_exit_code_last_attempt(result) ==
  IF result.apps = << >> THEN 1
  ELSE IF \E i \in 1..Len(result.apps) :
            /\ result.apps[i].return_code # 0
            /\ \A j \in (i + 1)..Len(result.apps) : result.apps[j].cmd # result.apps[i].cmd
       THEN 1
  ELSE 0

\* An exit code that forgets the empty report.
_exit_code_empty_ok(result) ==
  IF \E i \in 1..Len(result.apps) : result.apps[i].return_code # 0 THEN 1 ELSE 0

_exit_code(result) ==
  IF result.apps = << >> THEN 1
  ELSE IF \E i \in 1..Len(result.apps) : result.apps[i].return_code # 0 THEN 1
  ELSE 0

-----------------------------------------------------------------------------
(* The initial states *)

\* parse_cmdline_args' namespace, lines 368-390.
Flags(groups, dir, type, devices, selection, attempts, validator) ==
  [ project_id |-> "project",
    arg_groups |-> groups,
    testapp_dir |-> dir,
    test_type |-> type,
    test_devices |-> devices,
    test_device_selection |-> selection,
    timeout |-> "600s",
    additional_flags |-> << >>,
    max_attempts |-> attempts,
    validator |-> validator ]

DiscoveryMode(F) == F.testapp_dir # None /\ F.test_type # None

\* How many commands lines 156-172 make, when none of the builds raises.
NumCmds(F, files) ==
  IF DiscoveryMode(F)
  THEN Len(_search_testapps(files, F.test_type)) * Max(1, Len(F.arg_groups))
  ELSE Len(F.arg_groups)

InitRest ==
  /\ main_pc = "parse_cmdline_args"
  /\ ftl_cmd_list = << >>
  /\ tests_result = [ project_id |-> FLAGS.project_id, apps |-> << >> ]
  /\ n_started = 0
  /\ n_joined = 0
  /\ thread_pc = << >>
  /\ attempt_num = << >>
  /\ test_summary = << >>
  /\ popen_calls = << >>
  /\ verdicts = << >>
  /\ hook_calls = << >>
  /\ build_calls = 0
  /\ exit_code = << >>
  /\ stdout = << >>
  /\ parsed = << >>

\* The runs: every mode, test type, attempt count and validator, over
\* every directory, with the defaults of --test_devices (None) and
\* --test_device_selection ("all"); at most MaxThreads commands, and at most
\* MaxInvocations invocations when every attempt of every command is made.
\* The directories hold the files _search_testapps keeps for the test type
\* (the files it drops are in the directories of InitCmd); the gcloud
\* processes of these runs write nothing.
Init ==
  /\ \E groups \in ArgGroupLists, dir \in { None, "dir" }, type \in TestTypeValues,
        attempts \in 0..MaxAttempts, validator \in ValidatorValues :
       FLAGS = Flags(groups, dir, type, << >>, "all", attempts, validator)
  /\ fs \in (IF FLAGS.testapp_dir = None THEN { << >> } ELSE Dirs)
  /\ \A i \in 1..Len(fs) : Eligible(fs[i], FLAGS.test_type)
  /\ NumCmds(FLAGS, fs) <= MaxThreads
  /\ NumCmds(FLAGS, fs) * FLAGS.max_attempts <= MaxInvocations
  /\ result_log = << >>
  /\ InitRest

\* The command builder's inputs: every test type, device list and selection
\* policy, in both modes, over every directory.
InitCmd ==
  /\ \E groups \in ArgGroupLists, dir \in { None, "dir" }, type \in TestTypeValues,
        devices \in DeviceLists, selection \in { "all", "random" } :
       FLAGS = Flags(groups, dir, type, devices, selection, 1, None)
  /\ fs \in (IF FLAGS.testapp_dir = None THEN { << >> } ELSE Dirs)
  /\ result_log = << >>
  /\ InitRest

-----------------------------------------------------------------------------
(* The main thread *)

\* parse_cmdline_args, lines 391-393.
ModeGiven(F) == F.arg_groups # << >> \/ (F.testapp_dir # None /\ F.test_type # None)

ParseArgs ==
  /\ main_pc = "parse_cmdline_args"
  /\ main_pc' = IF ModeGiven(FLAGS) THEN "_run_test_on_ftl" ELSE "ValueError"
  /\ UNCHANGED << result_log, parsed, FLAGS, fs, ftl_cmd_list, tests_result, n_started, n_joined,
                  thread_vars, build_calls, exit_code, stdout >>

\* Lines 163-169: the commands one testapp contributes.
RECURSIVE Extended(_, _)
Extended(cmd, groups) ==
  IF groups = << >> THEN << >>
  ELSE << Append(cmd, Head(groups)) >> \o Extended(cmd, Tail(groups))

\* A loop that makes one command per testapp, argument groups or not.
CmdsOfApp_single(F, cmd) ==
  << cmd >>

\* Lines 163-169.
CmdsOfApp(F, cmd) ==
  IF F.arg_groups # << >> THEN Extended(cmd, F.arg_groups) ELSE << cmd >>

\* Lines 161-169 over testapps[1..k], with choice[i] what random.choice
\* picks for the i-th testapp.
RECURSIVE CmdsOfApps(_, _, _, _)
CmdsOfApps(F, testapps, choice, k) ==
  IF k = 0 THEN << >>
  ELSE CmdsOfApps(F, testapps, choice, k - 1)
         \o CmdsOfApp(F, _ftl_cmd_with_flags(F, testapps[k], choice[k]))

\* Lines 170-172.
RECURSIVE CmdsOfGroups(_, _)
CmdsOfGroups(F, groups) ==
  IF groups = << >> THEN << >>
  ELSE << _ftl_cmd_with_arg_group(F, Head(groups)) >> \o CmdsOfGroups(F, Tail(groups))

\* The first testapp whose build raises, or 0.
FirstRaising(F, testapps) ==
  LET bad == { i \in 1..Len(testapps) : FlagsCmdRaises(F, testapps[i]) # None } IN
  IF bad = { } THEN 0 ELSE CHOOSE i \in bad : \A j \in bad : i <= j

Choices(F, n) ==
  [ 1..n -> IF F.test_devices # << >> /\ F.test_device_selection = "random"
            THEN 1..Len(F.test_devices) ELSE { 1 } ]

NewThreads(cmds) ==
  /\ thread_pc' = [ i \in 1..Len(cmds) |-> "unstarted" ]
  /\ attempt_num' = [ i \in 1..Len(cmds) |-> 0 ]
  /\ test_summary' = [ i \in 1..Len(cmds) |-> << >> ]
  /\ popen_calls' = [ i \in 1..Len(cmds) |-> 0 ]
  /\ verdicts' = [ i \in 1..Len(cmds) |-> << >> ]
  /\ hook_calls' = [ i \in 1..Len(cmds) |-> << >> ]

\* _run_test_on_ftl, lines 154-176.
BuildCmdList ==
  /\ main_pc = "_run_test_on_ftl"
  /\ IF DiscoveryMode(FLAGS)
     THEN LET testapps == _search_testapps(fs, FLAGS.test_type)
              bad == FirstRaising(FLAGS, testapps) IN
          IF testapps = << >>
          THEN /\ main_pc' = "exit(1)"
               /\ UNCHANGED << ftl_cmd_list, thread_vars, build_calls >>
          ELSE IF bad # 0
          THEN /\ main_pc' = FlagsCmdRaises(FLAGS, testapps[bad])
               /\ build_calls' = bad
               /\ UNCHANGED << ftl_cmd_list, thread_vars >>
          ELSE \E choice \in Choices(FLAGS, Len(testapps)) :
                 LET cmds == CmdsOfApps(FLAGS, testapps, choice, Len(testapps)) IN
                 /\ ftl_cmd_list' = cmds
                 /\ build_calls' = Len(testapps)
                 /\ NewThreads(cmds)
                 /\ main_pc' = "start_threads"
     ELSE LET cmds == CmdsOfGroups(FLAGS, FLAGS.arg_groups) IN
          /\ ftl_cmd_list' = cmds
          /\ build_calls' = Len(FLAGS.arg_groups)
          /\ NewThreads(cmds)
          /\ main_pc' = "start_threads"
  /\ UNCHANGED << result_log, parsed, FLAGS, fs, tests_result, n_started, n_joined, exit_code, stdout >>

\* Lines 178-181: one turn of the loop, or its end.
StartThread ==
  /\ main_pc = "start_threads"
  /\ IF n_started < Len(ftl_cmd_list)
     THEN /\ n_started' = n_started + 1
          /\ thread_pc' = [ thread_pc EXCEPT ![n_started + 1] = "while" ]
          /\ attempt_num' = [ attempt_num EXCEPT ![n_started + 1] = 1 ]
          /\ UNCHANGED main_pc
     ELSE /\ main_pc' = "join_threads"
          /\ UNCHANGED << n_started, thread_pc, attempt_num >>
  /\ UNCHANGED << result_log, parsed, FLAGS, fs, ftl_cmd_list, tests_result, n_joined, test_summary,
                  popen_calls, verdicts, hook_calls, build_calls, exit_code, stdout >>

\* A join that does not wait.
Terminated_no_wait(t) == TRUE

\* A thread is over when _ftl_run returned or raised.
Terminated(t) == thread_pc[t] \in { "done", "raised" }

\* Lines 182-184: thread.join() returns once the thread is over.
JoinThread ==
  /\ main_pc = "join_threads"
  /\ IF n_joined < Len(ftl_cmd_list)
     THEN /\ Terminated(n_joined + 1)
          /\ n_joined' = n_joined + 1
          /\ UNCHANGED main_pc
     ELSE /\ main_pc' = "_exit_code"
          /\ UNCHANGED n_joined
  /\ UNCHANGED << result_log, parsed, FLAGS, fs, ftl_cmd_list, tests_result, n_started, thread_vars,
                  build_calls, exit_code, stdout >>

\* Line 113.
ExitCode ==
  /\ main_pc = "_exit_code"
  /\ exit_code' = << _exit_code(tests_result) >>
  /\ main_pc' = "print"
  /\ UNCHANGED << result_log, parsed, FLAGS, fs, ftl_cmd_list, tests_result, n_started, n_joined,
                  thread_vars, build_calls, stdout >>

\* Line 114.
PrintReport ==
  /\ main_pc = "print"
  /\ stdout' = Append(stdout, [ exit_code |-> exit_code[1], json |-> tests_result ])
  /\ main_pc' = "done"
  /\ UNCHANGED << result_log, parsed, FLAGS, fs, ftl_cmd_list, tests_result, n_started, n_joined,
                  thread_vars, build_calls, exit_code >>

-----------------------------------------------------------------------------
(* A thread: _ftl_run, lines 189-210 *)

\* Loop tests that are off by one, either way.
WhileTest_strict(F, attempt) == attempt < F.max_attempts

WhileTest_one_more(F, attempt) == attempt <= F.max_attempts + 1

\* Line 191.
WhileTest(F, attempt) == attempt <= F.max_attempts

\* Lines 191-198: the loop test, and Popen when it passes.
ThreadWhile(t) ==
  /\ thread_pc[t] = "while"
  /\ IF WhileTest(FLAGS, attempt_num[t])
     THEN /\ thread_pc' = [ thread_pc EXCEPT ![t] = "poll" ]
          /\ popen_calls' = [ popen_calls EXCEPT ![t] = @ + 1 ]
     ELSE /\ thread_pc' = [ thread_pc EXCEPT ![t] = "done" ]
          /\ UNCHANGED popen_calls
  /\ UNCHANGED << result_log, parsed, FLAGS, fs, main_pc, ftl_cmd_list, tests_result, n_started, n_joined,
                  attempt_num, test_summary, verdicts, hook_calls, build_calls,
                  exit_code, stdout >>

\* A report that takes each summary at the front.
AppendApp_front(result, summary) ==
  [ result EXCEPT !.apps = << summary >> \o @ ]

\* A report that keeps only the latest attempt of a command.
AppendApp_keep_last(result, summary) ==
  [ result EXCEPT !.apps =
      SelectSeq(@, LAMBDA r : r.cmd # summary.cmd) \o << summary >> ]

\* Line 205: list.append, one step of the interpreter.
AppendApp(result, summary) ==
  [ result EXCEPT !.apps = Append(@, summary) ]

\* What validator.validate may answer: either value when it is called for
\* this summary, and nothing to choose when it is not.
Answers(F, summary) ==
  IF _validate_results(F, summary, TRUE).hook THEN BOOLEAN ELSE { FALSE }

\* Lines 199-210, from the exit of the process to the loop test: the output
\* is parsed and the summary appended to the shared list (line 205, the
\* thread's one access to shared state), then _validate_results decides
\* between break and the next attempt; an exception it does not catch ends
\* the thread.
ThreadPoll(t) ==
  /\ thread_pc[t] = "poll"
  /\ \E returncode \in ReturnCodes :
     \E answer \in Answers(FLAGS, _parse_test_summary(FLAGS, ftl_cmd_list[t], returncode, Text(result_log), attempt_num[t])) :
       LET summary == _parse_test_summary(FLAGS, ftl_cmd_list[t], returncode, Text(result_log), attempt_num[t])
           v == _validate_results(FLAGS, summary, answer)
       IN
       /\ test_summary' = [ test_summary EXCEPT ![t] = << summary >> ]
       /\ tests_result' = AppendApp(tests_result, summary)
       /\ hook_calls' = [ hook_calls EXCEPT ![t] =
            IF v.hook THEN Append(@, [ attempt |-> attempt_num[t], answer |-> answer ]) ELSE @ ]
       /\ IF v.how = "raise"
          THEN /\ thread_pc' = [ thread_pc EXCEPT ![t] = "raised" ]
               /\ UNCHANGED << verdicts, attempt_num >>
          ELSE /\ verdicts' = [ verdicts EXCEPT ![t] = Append(@, v.value) ]
               /\ IF v.value
                  THEN /\ thread_pc' = [ thread_pc EXCEPT ![t] = "done" ]
                       /\ UNCHANGED attempt_num
                  ELSE /\ thread_pc' = [ thread_pc EXCEPT ![t] = "while" ]
                       /\ attempt_num' = [ attempt_num EXCEPT ![t] = @ + 1 ]
  /\ UNCHANGED << result_log, parsed, FLAGS, fs, main_pc, ftl_cmd_list, n_started, n_joined,
                  popen_calls, build_calls, exit_code, stdout >>

Threads == 1..Len(ftl_cmd_list)

Next ==
  \/ ParseArgs
  \/ BuildCmdList
  \/ StartThread
  \/ JoinThread
  \/ ExitCode
  \/ PrintReport
  \/ \E t \in Threads : ThreadWhile(t)
  \/ \E t \in Threads : ThreadPoll(t)

Spec == Init /\ [][Next]_vars

\* The runs under a fair scheduler: the main thread and every thread that can
\* take a step of the program takes one in the end.  When a gcloud process
\* exits is not the scheduler's to decide: ThreadPoll is under no fairness
\* condition, and a thread can stay in the loop of lines 199-200 for ever.
Fairness ==
  /\ WF_vars(ParseArgs \/ BuildCmdList \/ StartThread \/ JoinThread \/ ExitCode \/ PrintReport)
  /\ \A t \in 1..MaxThreads : WF_vars(t \in Threads /\ ThreadWhile(t))

\* The runs the fair specification starts from: both modes, game-loop
\* testapps, with and without a validator that cannot be loaded.
InitFair ==
  /\ Init
  /\ FLAGS.test_type \in { None, GAMELOOP }
  /\ FLAGS.validator \in { None, "no_such_file.py" }
  /\ \A i \in 1..Len(fs) : fs[i].ext = ".apk"

SpecFair == InitFair /\ [][Next]_vars /\ Fairness

\* The command builders alone: the main thread up to the command list.
NextCmd ==
  \/ ParseArgs
  \/ BuildCmdList

SpecCmd == InitCmd /\ [][NextCmd]_vars

\* The parser alone: one capture, parsed twice.
InitParse ==
  /\ FLAGS = Flags(<< >>, "dir", ROBO, << >>, "all", 1, None)
  /\ fs = << >>
  /\ result_log \in Captures
  /\ InitRest

ParseSummary ==
  /\ Len(parsed) < 2
  /\ parsed' = Append(parsed, _parse_test_summary(FLAGS, << GCLOUD >>, 0, Text(result_log), 1))
  /\ UNCHANGED << result_log, FLAGS, fs, main_pc, ftl_cmd_list, tests_result, n_started,
                  n_joined, thread_vars, build_calls, exit_code, stdout >>

SpecParse == InitParse /\ [][ParseSummary]_vars

\* The archive expander alone: one instrumentation archive in the directory,
\* with every listing of members.
InitZip ==
  /\ FLAGS = Flags(<< >>, "dir", INSTRUMENTATION, << >>, "all", 1, None)
  /\ \E m \in ZipListings : fs = << [ stem |-> "dir/t1", ext |-> ".zip", members |-> m ] >>
  /\ result_log = << >>
  /\ InitRest

SpecZip == InitZip /\ [][NextCmd]_vars

\* Retries with a device list: discovery runs of robo and game-loop testapps
\* with every device list and selection policy, and one attempt or more.
InitRetry ==
  /\ \E type \in { ROBO, GAMELOOP }, devices \in DeviceLists,
        selection \in { "all", "random" }, attempts \in 1..MaxAttempts :
       FLAGS = Flags(<< >>, "dir", type, devices, selection, attempts, None)
  /\ fs \in Dirs
  /\ \A i \in 1..Len(fs) : Eligible(fs[i], FLAGS.test_type)
  /\ NumCmds(FLAGS, fs) <= MaxThreads
  /\ NumCmds(FLAGS, fs) * FLAGS.max_attempts <= MaxInvocations
  /\ result_log = << >>
  /\ InitRest

SpecRetry == InitRetry /\ [][Next]_vars

-----------------------------------------------------------------------------
(* What the claims speak of *)

Last(seq) == seq[Len(seq)]

apps == tests_result.apps

\* The records of thread t in the report, in the report's order.  The
\* commands of one run differ from each other (each holds its own path or
\* argument group).
RecordsOf(t) == SelectSeq(apps, LAMBDA r : r.cmd = ftl_cmd_list[t])

Attempts(records) == [ k \in 1..Len(records) |-> records[k].attempt ]

\* _run_test_on_ftl has returned.
Returned == main_pc \in { "_exit_code", "print", "done" }

Over(t) == thread_pc[t] \in { "done", "raised" }

RECURSIVE SumTo(_, _)
SumTo(f, n) == IF n = 0 THEN 0 ELSE f[n] + SumTo(f, n - 1)

\* Attempt k of thread t was judged successful.
Successful(t, k) == k <= Len(verdicts[t]) /\ verdicts[t][k]

\* Attempt k of thread t was judged, and not successful.
NotSuccessful(t, k) == k <= Len(verdicts[t]) /\ ~verdicts[t][k]

HookCalled(t, k) == \E j \in 1..Len(hook_calls[t]) : hook_calls[t][j].attempt = k

HookTrue(t, k) ==
  \E j \in 1..Len(hook_calls[t]) : hook_calls[t][j].attempt = k /\ hook_calls[t][j].answer

-----------------------------------------------------------------------------
\* C1: the exit status computed from the report is 0 exactly when the report
\* has at least one record and every record has return code 0; it is 1 when
\* the report is empty or some record has a non-zero return code.
C1_ExitCode ==
  exit_code # << >> =>
    /\ exit_code[1] \in { 0, 1 }
    /\ exit_code[1] = 0 <=>
         (apps # << >> /\ \A i \in 1..Len(apps) : apps[i].return_code = 0)

C1_Witness ==
  /\ exit_code = << 0 >>
  /\ Len(apps) >= 2

\* C2: with max_attempts = N >= 1, a thread all of whose invocations exit
\* non-zero ends with exactly N records, numbered 1..N in the report's order.
C2_AlwaysFailing ==
  \A t \in Threads :
    ( /\ FLAGS.max_attempts >= 1
      /\ Over(t)
      /\ \A k \in 1..Len(RecordsOf(t)) : RecordsOf(t)[k].return_code # 0 )
    => Attempts(RecordsOf(t)) = [ k \in 1..FLAGS.max_attempts |-> k ]

C2_Witness ==
  \E t \in Threads :
    /\ FLAGS.max_attempts >= 2
    /\ Over(t)
    /\ Len(RecordsOf(t)) = FLAGS.max_attempts
    /\ \A k \in 1..Len(RecordsOf(t)) : RecordsOf(t)[k].return_code # 0

\* C3: a thread starts attempt k+1 exactly when attempt k was judged not
\* successful and k < max_attempts: it starts one only then, and when that
\* holds it is at the loop head and its next step starts the attempt.  Once an
\* attempt is judged successful or attempt max_attempts is over, the thread
\* invokes nothing more and its records stay as they are.
RetryDue(t) ==
  /\ popen_calls[t] >= 1
  /\ NotSuccessful(t, popen_calls[t])
  /\ popen_calls[t] < FLAGS.max_attempts

Settled(t) ==
  /\ Len(verdicts[t]) = popen_calls[t]
  /\ \/ (popen_calls[t] >= 1 /\ Successful(t, popen_calls[t]))
     \/ popen_calls[t] >= FLAGS.max_attempts

C3_Retry ==
  /\ [](\A t \in DOMAIN thread_pc : RetryDue(t) => thread_pc[t] = "while")
  /\ [][ \A t \in DOMAIN thread_pc :
           /\ (popen_calls[t] >= 1 /\ popen_calls'[t] # popen_calls[t]) => RetryDue(t)
           /\ (RetryDue(t) /\ thread_pc'[t] # thread_pc[t]) =>
                popen_calls'[t] = popen_calls[t] + 1
           /\ Settled(t) =>
                /\ popen_calls'[t] = popen_calls[t]
                /\ RecordsOf(t)' = RecordsOf(t) ]_vars

C3_Witness ==
  \E t \in Threads :
    /\ popen_calls[t] = 2
    /\ verdicts[t] = << FALSE, TRUE >>
    /\ thread_pc[t] = "done"

\* C4: once every thread is joined, the report holds exactly one record per
\* invocation made: for each thread and each attempt it made one record, and
\* no record besides these.
C4_NoLostRecord ==
  Returned =>
    /\ Len(apps) = SumTo(popen_calls, Len(ftl_cmd_list))
    /\ \A t \in Threads : \A k \in 1..popen_calls[t] :
         Cardinality({ i \in 1..Len(apps) :
                         apps[i].cmd = ftl_cmd_list[t] /\ apps[i].attempt = k }) = 1

C4_Witness ==
  /\ Returned
  /\ Len(apps) >= 3
  /\ apps[1].cmd # apps[2].cmd
  /\ apps[1].cmd = apps[3].cmd

\* C5: _run_test_on_ftl returns only when every thread it started is over,
\* finished or ended by an exception, and from then on the report does not
\* change; what is printed is the report the exit code was computed from.
C5_Join ==
  /\ [](Returned =>
          /\ n_started = Len(ftl_cmd_list)
          /\ \A t \in Threads : thread_pc[t] \in { "done", "raised" })
  /\ [][Returned => tests_result' = tests_result]_vars
  /\ [](stdout # << >> => stdout[1].json = tests_result)

C5_Witness ==
  /\ main_pc = "done"
  /\ Len(ftl_cmd_list) >= 2
  /\ \E t \in Threads : thread_pc[t] = "raised"
  /\ \E t \in Threads : thread_pc[t] = "done" /\ popen_calls[t] >= 2

\* C6, as stated: an attempt with a non-zero exit code is never successful;
\* for game-loop with a validator configured an attempt with exit code 0 is
\* successful exactly when the hook returned true for it; otherwise the hook
\* is never called and exit code 0 makes the attempt successful.
C6_Original ==
  \A t \in Threads : \A k \in 1..Len(RecordsOf(t)) :
    LET rc == RecordsOf(t)[k].return_code IN
    /\ rc # 0 => ~Successful(t, k)
    /\ IF FLAGS.test_type = "game-loop" /\ FLAGS.validator # None
       THEN rc = 0 => (Successful(t, k) <=> HookTrue(t, k))
       ELSE /\ hook_calls[t] = << >>
            /\ rc = 0 => Successful(t, k)

\* C6, amended: as above, but for game-loop with a validator configured an
\* attempt with exit code 0 is successful exactly when the hook returned true
\* for it, or loading the hook raised ImportError (the hook is then not
\* called).
C6_Validate ==
  \A t \in Threads : \A k \in 1..Len(RecordsOf(t)) :
    LET rc == RecordsOf(t)[k].return_code IN
    /\ rc # 0 => ~Successful(t, k)
    /\ IF FLAGS.test_type = "game-loop" /\ FLAGS.validator # None
       THEN rc = 0 =>
              (Successful(t, k) <=>
                 \/ HookTrue(t, k)
                 \/ (~HookCalled(t, k) /\ FLAGS.validator = "imports_missing_module.py"))
       ELSE /\ hook_calls[t] = << >>
            /\ rc = 0 => Successful(t, k)

C6_Witness ==
  \E t \in Threads :
    /\ FLAGS.test_type = "game-loop"
    /\ verdicts[t] = << FALSE, TRUE >>
    /\ hook_calls[t] = << [ attempt |-> 1, answer |-> FALSE ], [ attempt |-> 2, answer |-> TRUE ] >>
    /\ \A k \in 1..Len(RecordsOf(t)) : RecordsOf(t)[k].return_code = 0

\* C7: when the configured validator cannot be found or loaded, an attempt
\* with exit code 0 is kept as successful, no exception leaves the thread,
\* and the attempt's record is in the report.
C7_LoadFailure ==
  \A t \in Threads :
    ( /\ FLAGS.test_type = "game-loop"
      /\ FLAGS.validator \in { "imports_missing_module.py", "no_such_file.py" } )
    => /\ thread_pc[t] # "raised"
       /\ \A k \in 1..popen_calls[t] :
            (thread_pc[t] # "poll" \/ k < popen_calls[t]) =>
              /\ k <= Len(RecordsOf(t))
              /\ RecordsOf(t)[k].return_code = 0 => Successful(t, k)

\* C8: a non-zero exit code is recorded as a failed attempt and raises
\* nothing: every thread, whatever the exit codes of the others, runs until
\* an attempt of its own is successful or it has made max_attempts attempts.
C8_Isolation ==
  /\ \A t \in Threads : \A k \in 1..Len(RecordsOf(t)) :
       RecordsOf(t)[k].return_code # 0 => NotSuccessful(t, k)
  /\ (\E i \in 1..Len(apps) : apps[i].return_code # 0) =>
       \A t \in Threads :
         thread_pc[t] \in { "done", "raised" } =>
           \/ (popen_calls[t] >= 1 /\ Successful(t, popen_calls[t]))
           \/ popen_calls[t] = FLAGS.max_attempts

\* The part of C8 that is about the other threads only: a step in which a
\* thread records an exit code changes nothing of any other thread, and no
\* thread ends by an exception after a non-zero exit code.
C8_NonInterference ==
  /\ [](\A t \in DOMAIN thread_pc :
          thread_pc[t] = "raised" => Last(RecordsOf(t)).return_code = 0)
  /\ [][ \A t, u \in DOMAIN thread_pc :
           (t # u /\ popen_calls'[u] + Len(verdicts'[u]) # popen_calls[u] + Len(verdicts[u])) =>
             /\ thread_pc'[t] = thread_pc[t]
             /\ attempt_num'[t] = attempt_num[t]
             /\ popen_calls'[t] = popen_calls[t]
             /\ verdicts'[t] = verdicts[t]
             /\ RecordsOf(t)' = RecordsOf(t) ]_vars

\* C9: when the archive of one instrumentation testapp cannot be resolved,
\* the other testapps of the directory are still dispatched, run and
\* recorded: at the end of the run each of them has a record.
RunOver ==
  main_pc \in { "done", "ValueError", "UnboundLocalError", "exit(1)" }

C9_Siblings ==
  ( /\ RunOver
    /\ FLAGS.testapp_dir # None
    /\ FLAGS.test_type = "instrumentation"
    /\ FLAGS.max_attempts >= 1
    /\ \E i \in 1..Len(fs) : fs[i].ext = ".zip" /\ fs[i].members = << ZipApp >> )
  => \A i \in 1..Len(fs) :
       (fs[i].ext = ".zip" /\ fs[i].members = << ZipApp, ZipTest >>) =>
         \E j \in 1..Len(apps) : \E n \in 1..Len(apps[j].cmd) :
           apps[j].cmd[n] = fs[i].stem \o "/" \o ZipApp.name

-----------------------------------------------------------------------------
\* C10: _ftl_cmd_with_flags, for a device list of n >= 1 entries, emits one
\* --device flag whose value is in the list under "random", and n --device
\* flags, the list's entries in order, under "all"; with no device list it
\* emits none.
DeviceValues(cmd) ==
  LET at == { i \in 1..Len(cmd) : cmd[i] = "--device" }
      RECURSIVE After(_)
      After(i) ==
        IF i > Len(cmd) THEN << >>
        ELSE IF i \in at THEN << cmd[i + 1] >> \o After(i + 2)
        ELSE After(i + 1)
  IN After(1)

C10_Devices ==
  (main_pc = "start_threads" /\ DiscoveryMode(FLAGS)) =>
    \A c \in 1..Len(ftl_cmd_list) :
      LET d == DeviceValues(ftl_cmd_list[c]) IN
      IF FLAGS.test_devices = << >> THEN d = << >>
      ELSE IF FLAGS.test_device_selection = "random"
           THEN /\ Len(d) = 1
                /\ \E i \in 1..Len(FLAGS.test_devices) : d[1] = FLAGS.test_devices[i]
           ELSE d = FLAGS.test_devices

C10_Witness ==
  /\ main_pc = "start_threads"
  /\ DiscoveryMode(FLAGS)
  /\ Len(FLAGS.test_devices) = 3
  /\ FLAGS.test_device_selection = "random"
  /\ Len(ftl_cmd_list) >= 2
  /\ DeviceValues(ftl_cmd_list[1]) = << FLAGS.test_devices[3] >>
  /\ DeviceValues(ftl_cmd_list[2]) = << FLAGS.test_devices[1] >>

-----------------------------------------------------------------------------
\* C11: a command _ftl_cmd_with_flags builds holds both --app and --test
\* only for instrumentation (the two packages of the archive); for xctest it
\* holds --test alone, with the artifact's path; for robo and game-loop it
\* holds --app alone, with the artifact's path.
Has(cmd, flag) == \E i \in 1..Len(cmd) : cmd[i] = flag

\* The values that follow the occurrences of flag in cmd.
ValuesOf(cmd, flag) == { cmd[i + 1] : i \in { j \in 1..Len(cmd) - 1 : cmd[j] = flag } }

TestApps == _search_testapps(fs, FLAGS.test_type)

\* The testapp the c-th command of a discovery run was built for.
AppOfCmd(c) == TestApps[((c - 1) \div Max(1, Len(FLAGS.arg_groups))) + 1]

C11_AppAndTest ==
  (main_pc = "start_threads" /\ DiscoveryMode(FLAGS)) =>
    \A c \in 1..Len(ftl_cmd_list) :
      LET cmd == ftl_cmd_list[c]
          path == full_path(AppOfCmd(c))
      IN
      /\ (Has(cmd, "--app") /\ Has(cmd, "--test")) => FLAGS.test_type = INSTRUMENTATION
      /\ FLAGS.test_type = XCTEST =>
           ValuesOf(cmd, "--test") = { path } /\ ~Has(cmd, "--app")
      /\ FLAGS.test_type \in { ROBO, GAMELOOP } =>
           ValuesOf(cmd, "--app") = { path } /\ ~Has(cmd, "--test")
      /\ FLAGS.test_type = INSTRUMENTATION =>
           /\ ValuesOf(cmd, "--app") = { AppOfCmd(c).stem \o "/" \o ZipApp.name }
           /\ ValuesOf(cmd, "--test") = { AppOfCmd(c).stem \o "/" \o ZipTest.name }

C11_Witness ==
  /\ main_pc = "start_threads"
  /\ DiscoveryMode(FLAGS)
  /\ Len(ftl_cmd_list) = 2
  /\ FLAGS.arg_groups = << >>
  /\ FLAGS.test_type = INSTRUMENTATION
  /\ Has(ftl_cmd_list[2], "--app")
  /\ Has(ftl_cmd_list[2], "--test")

-----------------------------------------------------------------------------
\* C12: every command line handed to Popen, whether built for a discovered
\* testapp or for a raw argument group, holds --type with a value and
\* --timeout with a value.
C12_TypeAndTimeout ==
  \A t \in { u \in Threads : popen_calls[u] >= 1 } :
    /\ ValuesOf(ftl_cmd_list[t], "--type") # { }
    /\ ValuesOf(ftl_cmd_list[t], "--timeout") # { }

-----------------------------------------------------------------------------
\* C13: when the configuration is in error (neither --arg_groups nor
\* --testapp_dir with --test_type is given, or --test_type is given and is
\* none of the four known types) no thread is started, no command is handed
\* to Popen and no record is appended to the report.
ConfigurationError(F) ==
  \/ ~(F.arg_groups # << >> \/ (F.testapp_dir # None /\ F.test_type # None))
  \/ F.test_type \notin { None, XCTEST, ROBO, INSTRUMENTATION, GAMELOOP }

C13_AbortBeforeDispatch ==
  ConfigurationError(FLAGS) =>
    /\ n_started = 0
    /\ \A t \in Threads : popen_calls[t] = 0
    /\ apps = << >>

-----------------------------------------------------------------------------
\* C14: _parse_test_summary returns for every captured text, the empty one
\* and the ones cut short included: testapp_path, ftl_link and
\* raw_result_link are strings, empty when the text does not hold the
\* field's marker, and devices is a list, possibly empty, of records of two
\* strings; parsing the same text again returns an equal summary.
IsString(s) == DOMAIN s = 1..Len(s)

Holds(text, pat) == \E i \in 1..Len(text) : LiteralAt(text, pat, i)

-----------------------------------------------------------------------------
\* C15: the devices list _parse_test_summary returns holds one entry per
\* line of the text that is a table row of three cells whose first cell
\* does not hold OUTCOME, in the order of the text, and after them one entry
\* per OUTCOME: / TEST_AXIS_VALUE: / TEST_DETAILS: triple of lines, in the
\* order of the text; an entry's outcome is the first value and its
\* device_axis the second, both without surrounding white space.
ThreeCellRow(line) ==
  /\ line # << >>
  /\ line[1] = BAR
  /\ line[Len(line)] = BAR
  /\ Len(BarsOf(line)) = 4

Cell(line, j) == SubSeq(line, BarsOf(line)[j] + 1, BarsOf(line)[j + 1] - 1)

StartsWith(line, key) == Len(line) >= 2 /\ line[1] = key /\ line[2] = ":"

ValueOfLine(line) == SubSeq(line, 3, Len(line))

RECURSIVE RowEntries(_)
RowEntries(lines) ==
  IF lines = << >> THEN << >>
  ELSE (IF ThreeCellRow(lines[1]) /\ ~HoldsOutcome(Cell(lines[1], 1))
        THEN << [ device_axis |-> strip(Cell(lines[1], 2)),
                  outcome |-> strip(Cell(lines[1], 1)) ] >>
        ELSE << >>)
       \o RowEntries(Tail(lines))

RECURSIVE TripleEntries(_)
TripleEntries(lines) ==
  IF Len(lines) < 3 THEN << >>
  ELSE IF /\ StartsWith(lines[1], "OUTCOME")
          /\ StartsWith(lines[2], "TEST_AXIS_VALUE")
          /\ StartsWith(lines[3], "TEST_DETAILS")
       THEN << [ device_axis |-> strip(ValueOfLine(lines[2])),
                 outcome |-> strip(ValueOfLine(lines[1])) ] >>
            \o TripleEntries(SubSeq(lines, 4, Len(lines)))
       ELSE TripleEntries(Tail(lines))

C15_DevicesList ==
  \A k \in 1..Len(parsed) :
    parsed[k].devices = RowEntries(result_log) \o TripleEntries(result_log)

-----------------------------------------------------------------------------
\* C16: _extract_instrumentation_test raises when the archive holds no
\* .apk or more than two, or when no .apk name holds "test"; when it
\* returns, test_path is an .apk whose name holds "test" and app_path is
\* another .apk of the archive; an archive of one app package and one test
\* package gives these two.
Apks(zip) == SelectSeq(zip.members, LAMBDA m : m.apk)

PathIn(zip, m) == zip.stem \o "/" \o m.name

C16_Resolve ==
  (main_pc \in { "start_threads", "UnboundLocalError" } /\ Len(fs) = 1) =>
    LET zip == fs[1]
        apks == Apks(zip)
        raised == main_pc = "UnboundLocalError"
    IN
    /\ (Len(apks) = 0 \/ Len(apks) > 2 \/ \A i \in 1..Len(apks) : ~apks[i].test) => raised
    /\ ~raised =>
         \E i, j \in 1..Len(apks) :
           /\ i # j
           /\ apks[i].test
           /\ ValuesOf(ftl_cmd_list[1], "--test") = { PathIn(zip, apks[i]) }
           /\ ValuesOf(ftl_cmd_list[1], "--app") = { PathIn(zip, apks[j]) }
    /\ (Len(apks) = 2 /\ \E i, j \in 1..2 : apks[i].test /\ ~apks[j].test) => ~raised

-----------------------------------------------------------------------------
\* C17: in every reachable state the attempt numbers of the records of one
\* thread's command are 1, 2, ..., k in this order in apps, for some k >= 0:
\* no gap, no repeat, increasing.
C17_Contiguous ==
  \A t \in Threads :
    Attempts(RecordsOf(t)) = [ k \in 1..Len(RecordsOf(t)) |-> k ]

\* Two threads, each with both its attempts in the report, interleaved.
C17_Witness ==
  /\ Len(ftl_cmd_list) = 2
  /\ Len(apps) = 4
  /\ apps[1].cmd = ftl_cmd_list[2]
  /\ apps[2].cmd = ftl_cmd_list[1]
  /\ apps[3].cmd = ftl_cmd_list[2]
  /\ apps[4].cmd = ftl_cmd_list[1]
  /\ Attempts(RecordsOf(1)) = << 1, 2 >>
  /\ Attempts(RecordsOf(2)) = << 1, 2 >>

-----------------------------------------------------------------------------
\* C18: a thread that is over has handed its command to Popen at least once
\* and at most max_attempts times, whatever integer --max_attempts is; and
\* no thread ever exceeds max_attempts.
C18_AttemptBounds ==
  \A t \in Threads :
    /\ popen_calls[t] <= Max(FLAGS.max_attempts, 0)
    /\ Over(t) => popen_calls[t] >= 1

-----------------------------------------------------------------------------
\* C19: under a fair scheduler, when no gcloud process runs for ever, a run
\* whose command list is built goes on to return from _run_test_on_ftl and
\* to print its report; and when the process of some thread never exits,
\* that thread is never over and _run_test_on_ftl never returns.
Polling(t) == t \in Threads /\ thread_pc[t] = "poll"

C19_Termination ==
  /\ (\A t \in 1..MaxThreads : ~<>[]Polling(t))
       => ((main_pc = "start_threads") ~> (main_pc = "done" /\ stdout # << >>))
  /\ \A t \in 1..MaxThreads :
       <>[]Polling(t) => [](~Returned /\ (t \in Threads => ~Over(t)))

\* The report of a run of two threads, each with both its attempts made.
C19_Witness ==
  /\ main_pc = "done"
  /\ stdout # << >>
  /\ Len(ftl_cmd_list) = 2
  /\ popen_calls = << 2, 2 >>

-----------------------------------------------------------------------------
\* C20 as stated: the threads started are never more than the testapps
\* found (discovery mode) or the argument groups (raw mode), and once the
\* loop that starts them is over they are exactly as many.
StartLoopOver == main_pc \in { "join_threads", "_exit_code", "print", "done" }

Aborted == main_pc \in { "ValueError", "exit(1)", "UnboundLocalError" }

C20_Original ==
  LET n == IF DiscoveryMode(FLAGS) THEN Len(TestApps) ELSE Len(FLAGS.arg_groups) IN
  /\ n_started <= n
  /\ StartLoopOver => n_started = n

\* C20: the threads started are the commands of the command list, in its
\* order, and never more: in raw mode one per argument group; in discovery
\* mode one per testapp when no argument group is given, and one per pair of
\* a testapp and an argument group when some are, each such command being the
\* testapp's command with the group appended.  Once the loop that starts
\* them is over, all of them are started; a run that aborts starts none.
C20_Tasks ==
  LET groups == FLAGS.arg_groups
      per_app == IF groups = << >> THEN 1 ELSE Len(groups)
      n == IF DiscoveryMode(FLAGS) THEN Len(TestApps) * per_app ELSE Len(groups)
  IN
  /\ n_started <= n
  /\ StartLoopOver => n_started = n
  /\ Aborted => n_started = 0
  /\ n_started >= 1 => Len(ftl_cmd_list) = n
  /\ \A t \in 1..n_started :
       /\ thread_pc[t] # "unstarted"
       /\ groups # << >> =>
            Last(ftl_cmd_list[t]) = groups[IF DiscoveryMode(FLAGS) THEN ((t - 1) % per_app) + 1 ELSE t]
       /\ DiscoveryMode(FLAGS) =>
            LET cmd == _ftl_cmd_with_flags(FLAGS, TestApps[((t - 1) \div per_app) + 1], 1) IN
            ftl_cmd_list[t] = IF groups = << >> THEN cmd ELSE Append(cmd, Last(ftl_cmd_list[t]))

\* One testapp and two argument groups: two threads.
C20_Witness ==
  /\ DiscoveryMode(FLAGS)
  /\ Len(TestApps) = 1
  /\ Len(FLAGS.arg_groups) = 2
  /\ main_pc = "join_threads"
  /\ n_started = 2

-----------------------------------------------------------------------------
\* C21: the command line of every attempt comes from a call of the command
\* builder of its own: the builder has been called at least as many times as
\* commands were handed to Popen.
C21_FreshBuild ==
  SumTo(popen_calls, Len(popen_calls)) <= build_calls

-----------------------------------------------------------------------------
\* C22: when the main thread of a run whose configuration is valid has
\* ended, it has printed exactly one line, the exit code and the report,
\* and the report lists one record per command handed to Popen, whatever its
\* return code; when no testapp was found the line holds exit code 1 and an
\* empty apps list.
ReportLine(line) ==
  /\ line.exit_code \in { 0, 1 }
  /\ Len(line.json.apps) = SumTo(popen_calls, Len(popen_calls))
  /\ \A t \in Threads :
       Len(SelectSeq(line.json.apps, LAMBDA r : r.cmd = ftl_cmd_list[t])) = popen_calls[t]

C22_FinalReport ==
  (RunOver /\ ~ConfigurationError(FLAGS)) =>
    /\ Len(stdout) = 1
    /\ ReportLine(stdout[1])
    /\ (DiscoveryMode(FLAGS) /\ TestApps = << >>) =>
         (stdout[1].exit_code = 1 /\ stdout[1].json.apps = << >>)

-----------------------------------------------------------------------------
\* C23: once the exit code is computed, it is 1 whenever some attempt of
\* some command exited non-zero, also when a later attempt of that command
\* exited 0 and was judged successful: the record of the failed attempt is
\* still in the report, and the printed line carries exit code 1 and that
\* record.
ExitCodeComputed == main_pc \in { "print", "done" }

\* Thread t made an attempt that failed by its return code: it retried
\* without the validator having rejected anything.
FailedByReturnCode(t) ==
  \E k \in 1..Len(verdicts[t]) :
    /\ ~verdicts[t][k]
    /\ \A h \in 1..Len(hook_calls[t]) : hook_calls[t][h].attempt # k

C23_NoRepair ==
  ExitCodeComputed =>
    /\ (\E i \in 1..Len(apps) : apps[i].return_code # 0) => exit_code = << 1 >>
    /\ \A t \in Threads :
         FailedByReturnCode(t) =>
           /\ exit_code = << 1 >>
           /\ \E i \in 1..Len(apps) : apps[i].cmd = ftl_cmd_list[t] /\ apps[i].return_code # 0
           /\ main_pc = "done" =>
                /\ stdout[1].exit_code = 1
                /\ \E i \in 1..Len(stdout[1].json.apps) :
                     /\ stdout[1].json.apps[i].cmd = ftl_cmd_list[t]
                     /\ stdout[1].json.apps[i].return_code # 0

\* One command whose first attempt exits 10 and whose second exits 0 and
\* is judged successful; the line printed carries exit code 1.
C23_Witness ==
  /\ main_pc = "done"
  /\ Len(ftl_cmd_list) = 1
  /\ Len(apps) = 2
  /\ apps[1].return_code = 10
  /\ apps[2].return_code = 0
  /\ verdicts[1] = << FALSE, TRUE >>
  /\ stdout[1].exit_code = 1

-----------------------------------------------------------------------------
\* C24: in a game-loop run that has computed its exit code, where every
\* attempt exited 0 and the validator was called for every attempt and
\* rejected it, every command has max_attempts records and the exit code,
\* computed and printed, is 0.
AllRejected ==
  /\ FLAGS.test_type = GAMELOOP
  /\ apps # << >>
  /\ \A i \in 1..Len(apps) : apps[i].return_code = 0
  /\ \A t \in Threads :
       /\ Len(hook_calls[t]) = popen_calls[t]
       /\ \A h \in 1..Len(hook_calls[t]) : ~hook_calls[t][h].answer

C24_VerdictDrivesRetriesOnly ==
  (ExitCodeComputed /\ AllRejected) =>
    /\ \A t \in Threads :
         /\ Len(RecordsOf(t)) = FLAGS.max_attempts
         /\ popen_calls[t] = FLAGS.max_attempts
    /\ exit_code = << 0 >>
    /\ main_pc = "done" => stdout[1].exit_code = 0

\* Two game-loop commands, each rejected twice by the validator after
\* exiting 0; the line printed carries exit code 0.
C24_Witness ==
  /\ main_pc = "done"
  /\ AllRejected
  /\ FLAGS.max_attempts = 2
  /\ Len(ftl_cmd_list) = 2
  /\ Len(apps) = 4
  /\ stdout[1].exit_code = 0

====
